---- MODULE Spec2Model ----
(***************************************************************************)
(* debug_gifts.py: one GET request to a fixed URL with a fixed header and  *)
(* timeout=10, then print(json.dumps(response.json(), indent=2)); any      *)
(* Exception raised inside the try block is printed by the handler.        *)
(*                                                                         *)
(* The script's collaborators are modelled by what they do:                *)
(*   requests.get   a connect phase and a read phase, each wait bounded by *)
(*                  the timeout (the timeout restarts whenever bytes       *)
(*                  arrive), ending in a response or a raised exception;   *)
(*   response.json  Python's JSON decoder (last duplicate name wins, the   *)
(*                  constants NaN/Infinity/-Infinity are accepted, numbers *)
(*                  become int or float);                                  *)
(*   json.dumps     Python's encoder with indent=2 (one line per item);    *)
(*   print          a write to standard output that may raise.             *)
(***************************************************************************)
EXTENDS Naturals, Sequences, FiniteSets, TLC

\* ---------------------------------------------------------------- bounds

\* Most members an object, or items an array, of a modelled body holds.
MaxMembers == 2
\* Most chunks of a response body that arrive before its last one.
MaxChunks == 1
\* The clocks of the call stop counting here (past the timeout).
MaxClock == 12

\* ------------------------------------------------------------- constants

\* src line 8: timeout=10
TIMEOUT == 10
\* src line 9: indent=2
INDENT == 2

URL == "https://channelsseller.site/api/user/udbcwicnovewwobvo/nfts"
HEADERS == [name \in {"X-Admin-Password"} |-> "nova_admin_2024"]

\* ------------------------------------------------------ response bodies

\* A body is a syntax tree of the text received.  t is the production:
\*   "obj"   kids: the members [k, v] in the order written (names may repeat)
\*   "arr"   kids: the items in order
\*   "num" "str" "lit"   lit: the token as written (lit: null, true, false)
\*   "const" lit: NaN, Infinity, -Infinity (no production of JSON)
\*   "text"  lit: text that no decoder accepts
Doc(t, lit, kids) == [t |-> t, lit |-> lit, kids |-> kids]
Member(k, v) == [k |-> k, v |-> v]

Keys == {"a", "b"}
Leaves == {Doc("num", "1", <<>>), Doc("str", "x", <<>>)}

SeqsUpTo(S, n) == UNION {[1..m -> S] : m \in 0..n}

Objects(vals) == {Doc("obj", "", ms) :
                    ms \in SeqsUpTo({Member(k, v) : k \in Keys, v \in vals}, MaxMembers)}
Arrays(vals) == {Doc("arr", "", xs) : xs \in SeqsUpTo(vals, MaxMembers)}

Flat == Objects(Leaves) \cup Arrays(Leaves)
\* Containers nested once more: those of at most one member, wrapped.
Inner == {d \in Flat : Len(d.kids) <= 1}
Nested == {Doc("obj", "", <<Member("b", d), Member("a", Doc("num", "1", <<>>))>>) : d \in Inner}
            \cup {Doc("arr", "", <<d>>) : d \in Inner}

Scalars == {Doc("lit", "null", <<>>), Doc("lit", "true", <<>>),
            Doc("num", "1", <<>>), Doc("num", "-0", <<>>),
            Doc("num", "1.50", <<>>), Doc("num", "1E2", <<>>),
            Doc("num", "1e400", <<>>), Doc("str", "x", <<>>)}
PyConstants == {Doc("const", "NaN", <<>>), Doc("const", "Infinity", <<>>),
                Doc("const", "-Infinity", <<>>)}
Garbage == {Doc("text", "", <<>>), Doc("text", "<html>", <<>>),
            Doc("text", "{\"a\":", <<>>)}

Bodies == Scalars \cup Flat \cup Nested \cup PyConstants \cup Garbage

\* RFC 8259: a value is an object, array, number, string, or one of the
\* three literal names; anything else is not JSON.
RECURSIVE ValidJSON(_)
ValidJSON(d) ==
    CASE d.t \in {"num", "str", "lit"} -> TRUE
      [] d.t = "arr" -> \A i \in 1..Len(d.kids) : ValidJSON(d.kids[i])
      [] d.t = "obj" -> \A i \in 1..Len(d.kids) : ValidJSON(d.kids[i].v)
      [] OTHER -> FALSE

\* ----------------------------------------------- response.json(): decoding

\* A Python value: t is the type, lit its repr (scalars), kids the items of a
\* list or the items [k, v] of a dict in insertion order (keys unique).
Py(t, lit, kids) == [t |-> t, lit |-> lit, kids |-> kids]

\* int(s) or float(s) of a number token, as Python's repr of the result:
\* a token with a fraction or an exponent is a float, 1e400 overflows to inf.
ParseNumber(lit) ==
    CASE lit = "1" -> Py("int", "1", <<>>)
      [] lit = "-0" -> Py("int", "0", <<>>)
      [] lit = "1.50" -> Py("float", "1.5", <<>>)
      [] lit = "1E2" -> Py("float", "100.0", <<>>)
      [] lit = "1e400" -> Py("float", "inf", <<>>)

\* The decoder's constants: null, true, false, and (parse_constant) the three
\* names NaN, Infinity, -Infinity that it accepts beyond JSON.
ParseConstant(lit) ==
    CASE lit = "null" -> Py("NoneType", "None", <<>>)
      [] lit = "true" -> Py("bool", "True", <<>>)
      [] lit = "false" -> Py("bool", "False", <<>>)
      [] lit = "NaN" -> Py("float", "nan", <<>>)
      [] lit = "Infinity" -> Py("float", "inf", <<>>)
      [] lit = "-Infinity" -> Py("float", "-inf", <<>>)

\* dict.__setitem__: a new key is appended, a present key keeps its place and
\* takes the new value.
DictSet(items, k, v) ==
    IF \E i \in 1..Len(items) : items[i].k = k
    THEN [i \in 1..Len(items) |-> IF items[i].k = k THEN Member(k, v) ELSE items[i]]
    ELSE Append(items, Member(k, v))

RECURSIVE Decode(_)
RECURSIVE DecodeMembers(_, _, _)
RECURSIVE DecodeItems(_, _)

\* The members from the i-th on, set one after the other into the dict.
DecodeMembers(ms, i, items) ==
    IF i > Len(ms) THEN items
    ELSE DecodeMembers(ms, i + 1, DictSet(items, ms[i].k, Decode(ms[i].v)))

DecodeItems(xs, i) ==
    IF i > Len(xs) THEN <<>> ELSE <<Decode(xs[i])>> \o DecodeItems(xs, i + 1)

Decode(d) ==
    CASE d.t = "obj" -> Py("dict", "", DecodeMembers(d.kids, 1, <<>>))
      [] d.t = "arr" -> Py("list", "", DecodeItems(d.kids, 1))
      [] d.t = "num" -> ParseNumber(d.lit)
      [] d.t = "str" -> Py("str", d.lit, <<>>)
      [] d.t \in {"lit", "const"} -> ParseConstant(d.lit)

\* An exception object: its class and str(e).
Exc(kind, msg) == [kind |-> kind, msg |-> msg]

\* str() of the JSONDecodeError the decoder raises on each undecodable text.
DecodeErrorMsg(lit) ==
    CASE lit = "{\"a\":" -> "Expecting value: line 1 column 6 (char 5)"
      [] OTHER -> "Expecting value: line 1 column 1 (char 0)"

\* response.json(): the decoded body, or the exception raised.
response_json(body) ==
    IF body.t = "text"
    THEN [ok |-> FALSE, val |-> Py("NoneType", "None", <<>>),
          exc |-> Exc("JSONDecodeError", DecodeErrorMsg(body.lit))]
    ELSE [ok |-> TRUE, val |-> Decode(body), exc |-> Exc("", "")]

\* ------------------------------------------- json.dumps(value, indent=2)

\* One printed line: its leading spaces and the text after them.
Line(n, text) == [indent |-> n, text |-> text]

\* float.__repr__, but for nan and the infinities (encoder's floatstr).
FloatStr(lit) ==
    CASE lit = "nan" -> "NaN"
      [] lit = "inf" -> "Infinity"
      [] lit = "-inf" -> "-Infinity"
      [] OTHER -> lit

EncodeScalar(v) ==
    CASE v.t = "NoneType" -> "null"
      [] v.t = "bool" -> (IF v.lit = "True" THEN "true" ELSE "false")
      [] v.t = "int" -> v.lit
      [] v.t = "float" -> FloatStr(v.lit)
      [] v.t = "str" -> "\"" \o v.lit \o "\""

\* The text put before a dict item's value.
KeyPrefix(k) == "\"" \o k \o "\": "

\* The item separator after all items but the last.
Separator(i, n) == IF i < n THEN "," ELSE ""

\* The leading spaces of a line at nesting level `level`.
NewlineIndent(indent, level) == indent * level

RECURSIVE Encode(_, _, _, _, _)
RECURSIVE EncodeKids(_, _, _, _)

\* The lines of v at nesting level `level`; the first starts with `prefix`
\* (a dict key, or nothing), the last ends with `suffix` (a comma, or nothing).
Encode(v, indent, level, prefix, suffix) ==
    IF v.t \notin {"dict", "list"}
    THEN <<Line(NewlineIndent(indent, level), prefix \o EncodeScalar(v) \o suffix)>>
    ELSE LET open == IF v.t = "dict" THEN "{" ELSE "["
             close == IF v.t = "dict" THEN "}" ELSE "]"
         IN  IF Len(v.kids) = 0
             THEN <<Line(NewlineIndent(indent, level), prefix \o open \o close \o suffix)>>
             ELSE <<Line(NewlineIndent(indent, level), prefix \o open)>>
                  \o EncodeKids(v, indent, level + 1, 1)
                  \o <<Line(NewlineIndent(indent, level), close \o suffix)>>

EncodeKids(v, indent, level, i) ==
    IF i > Len(v.kids) THEN <<>>
    ELSE (IF v.t = "dict"
          THEN Encode(v.kids[i].v, indent, level, KeyPrefix(v.kids[i].k),
                      Separator(i, Len(v.kids)))
          ELSE Encode(v.kids[i], indent, level, "", Separator(i, Len(v.kids))))
         \o EncodeKids(v, indent, level, i + 1)

json_dumps(v, indent) == Encode(v, indent, 0, "", "")


\* ------------------------------------------------------------ the script

VARIABLES
    url,        \* line 4: the module global url
    headers,    \* line 5: the module global headers
    pc,         \* where the script is: "try", "connecting", "reading" (inside
                \* requests.get), "json", "dumps", "print", "except", and the
                \* final "done" (exit status 0) or "crashed" (traceback)
    sent,       \* the requests handed to the HTTP client, in order
    idle,       \* seconds since requests.get last made progress on its socket
    elapsed,    \* seconds since requests.get was called (both clocks stop
                \* counting at MaxClock)
    chunks,     \* chunks of the response body received so far
    response,   \* <<>> or <<the response>>: line 8's local
    value,      \* <<>> or <<response.json()'s result>>
    text,       \* <<>> or <<json.dumps's result>>
    e,          \* <<>> or <<the exception the handler caught>>: line 10's e
    stdout,     \* what was written to standard output, in order
    exitCode,   \* the process's exit status
    writes,     \* history: how each print call ended
    log,        \* history: the steps performed, in order
    run,        \* which invocation this is: "first" or "second"
    prev        \* <<>> or <<what the first invocation met and produced>>

script == <<url, headers, pc, sent, idle, elapsed, chunks, response, value, text,
            e, stdout, exitCode, writes, log>>
vars == <<script, run, prev>>

Statuses == {200, 404, 500}
Response(status, body) == [status |-> status, body |-> body]

\* What the HTTP client can raise: any of its exception classes, with any text.
ErrorTexts == {"Max retries exceeded", "Connection aborted."}
ConnectionErrors == {Exc(k, m) : k \in {"ConnectionError", "SSLError"}, m \in ErrorTexts}
ConnectTimeouts == {Exc("ConnectTimeout", m) : m \in ErrorTexts}
ReadTimeouts == {Exc("ReadTimeout", m) : m \in ErrorTexts}
\* What a failed write to standard output raises.
WriteErrors == {Exc("OSError", "[Errno 32] Broken pipe")}
\* How a print call can end: everything written; nothing written and an
\* exception; a part of several lines written and an exception.
WriteOutcomes(lines) == IF Len(lines) > 1 THEN {"ok", "fail", "partial"} ELSE {"ok", "fail"}

\* One write to standard output: the call that made it ("json": line 9,
\* "error": line 11), the lines it was given, and whether all were written.
Written(what, lines, complete) == [what |-> what, lines |-> lines, complete |-> complete]

\* A call that leaves out headers=headers.
RequestArgsNoHeaders ==
    [method |-> "GET", url |-> url, headers |-> [name \in {} |-> ""], timeout |-> TIMEOUT]

\* Line 8: the arguments of the one call requests.get(url, headers=headers, timeout=10).
RequestArgs == [method |-> "GET", url |-> url, headers |-> headers, timeout |-> TIMEOUT]

\* A call without timeout=10: no wait ever times out.
NoTimeout(t) == FALSE

\* timeout=10: a wait for the socket ends with a timeout exception once 10
\* seconds passed without progress.
TimeoutExpired(t) == t >= TIMEOUT

\* A script that calls response.raise_for_status() before response.json().
JsonResultChecked(resp) ==
    IF resp.status >= 400
    THEN [ok |-> FALSE, val |-> Py("NoneType", "None", <<>>),
          exc |-> Exc("HTTPError", "Client or Server Error")]
    ELSE response_json(resp.body)

\* Line 9 calls response.json() on whatever response came back: the status
\* is not looked at.
JsonResult(resp) == response_json(resp.body)

\* sorted(dict.items()) at every level.
RECURSIVE SortKeys(_)
SortKeys(v) ==
    CASE v.t = "dict" ->
           LET sorted(k) == SelectSeq([i \in 1..Len(v.kids) |->
                                          Member(v.kids[i].k, SortKeys(v.kids[i].v))],
                                      LAMBDA m : m.k = k)
           IN  Py("dict", "", sorted("a") \o sorted("b"))
      [] v.t = "list" -> Py("list", "", [i \in 1..Len(v.kids) |-> SortKeys(v.kids[i])])
      [] OTHER -> v

\* json.dumps(..., indent=2, sort_keys=True).
DumpsSorted(v) == json_dumps(SortKeys(v), INDENT)

\* Line 9: json.dumps(..., indent=2).
DumpsResult(v) == json_dumps(v, INDENT)

\* print(repr(e)): the exception's class and its text.
ErrorRepr(x) == x.kind \o "('" \o x.msg \o "')"

\* Line 11: print(e) writes str(e).
ErrorText(x) == x.msg

\* A script that polls: after printing it requests again.
PollAfterPrint == "try"

\* The try block has no else and no finally, and nothing follows it: after
\* line 9's print the script ends.
AfterPrint == "done"

\* A script that retries: after the handler it requests again.
RetryAfterHandler == "try"

\* Line 11 is the script's last statement: after the handler's print the
\* script ends.
AfterHandler == "done"

Init ==
    /\ url = URL
    /\ headers = HEADERS
    /\ pc = "try"
    /\ sent = <<>>
    /\ idle = 0
    /\ elapsed = 0
    /\ chunks = 0
    /\ response = <<>>
    /\ value = <<>>
    /\ text = <<>>
    /\ e = <<>>
    /\ stdout = <<>>
    /\ exitCode = 0
    /\ writes = <<>>
    /\ log = <<>>
    /\ run = "first"
    /\ prev = <<>>

Terminated == pc \in {"done", "crashed"}

\* What the HTTP client did, as far as the text it handed over goes: the
\* body it returned, or the text of the exception it raised.
BodyReturned(body) == [got |-> "body", body |-> body, msg |-> ""]
ErrorRaised(msg) == [got |-> "error", body |-> Doc("text", "", <<>>), msg |-> msg]
ClientBehaviour ==
    IF response # <<>> THEN BodyReturned(response[1].body)
    ELSE IF e # <<>> THEN ErrorRaised(e[1].msg)
    ELSE [got |-> "none", body |-> Doc("text", "", <<>>), msg |-> ""]

\* In the second of two invocations the HTTP client repeats what it did in
\* the first (the same body, or an exception with the same text); its status
\* and its exception class are free.
Repeats(behaviour) == run = "second" => prev[1].client = behaviour

\* An exception raised inside the try block (lines 8-9) is an Exception:
\* line 10 binds it to e and the handler runs next.
Raise(x) ==
    /\ e' = <<x>>
    /\ pc' = "except"
    /\ log' = Append(log, "raise")

\* requests.get returns or raises: its clocks are gone with it.
CallEnds ==
    /\ idle' = 0
    /\ elapsed' = 0
    /\ chunks' = 0

\* Line 8: requests.get is called; it starts by connecting.
Get ==
    /\ pc = "try"
    /\ sent' = Append(sent, RequestArgs)
    /\ pc' = "connecting"
    /\ log' = Append(log, "get")
    /\ UNCHANGED <<url, headers, idle, elapsed, chunks, response, value, text, e,
                   stdout, exitCode, writes, run, prev>>

\* A second passes while requests.get waits for its socket.
Tick ==
    /\ pc \in {"connecting", "reading"}
    /\ ~TimeoutExpired(idle)
    /\ idle' = IF idle < MaxClock THEN idle + 1 ELSE idle
    /\ elapsed' = IF elapsed < MaxClock THEN elapsed + 1 ELSE elapsed
    /\ UNCHANGED <<url, headers, pc, sent, chunks, response, value, text, e,
                   stdout, exitCode, writes, log, run, prev>>

\* The connection is made and the request written: the wait for the
\* response starts, with the timeout counted anew.
Connect ==
    /\ pc = "connecting"
    /\ pc' = "reading"
    /\ idle' = 0
    /\ UNCHANGED <<url, headers, sent, elapsed, chunks, response, value, text, e,
                   stdout, exitCode, writes, log, run, prev>>

\* The connection cannot be made (refused, unreachable, TLS failure).
ConnectFails ==
    /\ pc = "connecting"
    /\ \E x \in ConnectionErrors : Repeats(ErrorRaised(x.msg)) /\ Raise(x)
    /\ CallEnds
    /\ UNCHANGED <<url, headers, sent, response, value, text, stdout, exitCode,
                   writes, run, prev>>

\* No connection within the timeout.
ConnectTimesOut ==
    /\ pc = "connecting"
    /\ TimeoutExpired(idle)
    /\ \E x \in ConnectTimeouts : Repeats(ErrorRaised(x.msg)) /\ Raise(x)
    /\ CallEnds
    /\ UNCHANGED <<url, headers, sent, response, value, text, stdout, exitCode,
                   writes, run, prev>>

\* Bytes of the response arrive, but not yet its end: the read timeout is
\* counted anew from here (it bounds each wait, not the whole call).
ReceiveChunk ==
    /\ pc = "reading"
    /\ chunks < MaxChunks
    /\ chunks' = chunks + 1
    /\ idle' = 0
    /\ UNCHANGED <<url, headers, pc, sent, elapsed, response, value, text, e,
                   stdout, exitCode, writes, log, run, prev>>

\* The connection breaks while the response is read.
ReadFails ==
    /\ pc = "reading"
    /\ \E x \in ConnectionErrors : Repeats(ErrorRaised(x.msg)) /\ Raise(x)
    /\ CallEnds
    /\ UNCHANGED <<url, headers, sent, response, value, text, stdout, exitCode,
                   writes, run, prev>>

\* No byte within the timeout.
ReadTimesOut ==
    /\ pc = "reading"
    /\ TimeoutExpired(idle)
    /\ \E x \in ReadTimeouts : Repeats(ErrorRaised(x.msg)) /\ Raise(x)
    /\ CallEnds
    /\ UNCHANGED <<url, headers, sent, response, value, text, stdout, exitCode,
                   writes, run, prev>>

\* The response is complete: requests.get returns it, whatever its status.
ReceiveResponse ==
    /\ pc = "reading"
    /\ \E s \in Statuses, b \in Bodies :
          /\ Repeats(BodyReturned(b))
          /\ response' = <<Response(s, b)>>
    /\ pc' = "json"
    /\ log' = Append(log, "response")
    /\ CallEnds
    /\ UNCHANGED <<url, headers, sent, value, text, e, stdout, exitCode, writes,
                   run, prev>>

\* Line 9, innermost call: response.json().
ResponseJson ==
    /\ pc = "json"
    /\ LET r == JsonResult(response[1])
       IN  IF r.ok
           THEN /\ value' = <<r.val>>
                /\ pc' = "dumps"
                /\ log' = Append(log, "json")
                /\ e' = e
           ELSE /\ Raise(r.exc)
                /\ value' = value
    /\ UNCHANGED <<url, headers, sent, idle, elapsed, chunks, response, text,
                   stdout, exitCode, writes, run, prev>>

\* Line 9, middle call: json.dumps(value, indent=2).
JsonDumps ==
    /\ pc = "dumps"
    /\ text' = <<DumpsResult(value[1])>>
    /\ pc' = "print"
    /\ log' = Append(log, "dumps")
    /\ UNCHANGED <<url, headers, sent, idle, elapsed, chunks, response, value, e,
                   stdout, exitCode, writes, run, prev>>

\* Line 9, outermost call: print(text).  The write may fail, and then raises
\* inside the try block.
PrintJson ==
    /\ pc = "print"
    /\ \E o \in WriteOutcomes(text[1]) :
          /\ writes' = Append(writes, o)
          /\ stdout' = IF o = "fail" THEN stdout
                       ELSE Append(stdout, Written("json", text[1], o = "ok"))
          /\ IF o = "ok"
             THEN /\ pc' = AfterPrint
                  /\ log' = Append(log, "print")
                  /\ e' = e
             ELSE \E x \in WriteErrors :
                     /\ e' = <<x>>
                     /\ pc' = "except"
                     /\ log' = log \o <<"print", "raise">>
    /\ UNCHANGED <<url, headers, sent, idle, elapsed, chunks, response, value, text,
                   exitCode, run, prev>>

\* Lines 10-11: the handler, print(e).  Nothing encloses it: an exception of
\* this print leaves the script, which ends with a traceback and status 1.
PrintE ==
    /\ pc = "except"
    /\ \E o \in WriteOutcomes(<<Line(0, ErrorText(e[1]))>>) :
          /\ writes' = Append(writes, o)
          /\ stdout' = IF o = "fail" THEN stdout
                       ELSE Append(stdout, Written("error", <<Line(0, ErrorText(e[1]))>>, o = "ok"))
          /\ IF o = "ok"
             THEN /\ pc' = AfterHandler
                  /\ exitCode' = exitCode
             ELSE /\ pc' = "crashed"
                  /\ exitCode' = 1
    /\ log' = Append(log, "except")
    /\ UNCHANGED <<url, headers, sent, idle, elapsed, chunks, response, value, text,
                   e, run, prev>>

\* The script is invoked once more, as a new process: nothing of the first
\* invocation is left but what the observer noted of it.
NewInvocation ==
    /\ Terminated
    /\ run = "first"
    /\ prev' = <<[client |-> ClientBehaviour, writes |-> writes, stdout |-> stdout,
                  pc |-> pc, exitCode |-> exitCode]>>
    /\ run' = "second"
    /\ url' = URL
    /\ headers' = HEADERS
    /\ pc' = "try"
    /\ sent' = <<>>
    /\ idle' = 0
    /\ elapsed' = 0
    /\ chunks' = 0
    /\ response' = <<>>
    /\ value' = <<>>
    /\ text' = <<>>
    /\ e' = <<>>
    /\ stdout' = <<>>
    /\ exitCode' = 0
    /\ writes' = <<>>
    /\ log' = <<>>

\* What the HTTP client and the network do.
Client ==
    \/ Connect
    \/ ConnectFails
    \/ ReceiveChunk
    \/ ReadFails
    \/ ReceiveResponse

\* The timeout of line 8 firing.
Timeout ==
    \/ ConnectTimesOut
    \/ ReadTimesOut

\* The script's own statements.
Script ==
    \/ Get
    \/ ResponseJson
    \/ JsonDumps
    \/ PrintJson
    \/ PrintE

Next ==
    \/ Script
    \/ Tick
    \/ Timeout
    \/ Client

\* One invocation.
Spec == Init /\ [][Next]_vars

\* One invocation, in which the interpreter keeps running the script, time
\* keeps passing and an expired timeout fires; the network owes nothing.
FairSpec == Spec /\ WF_vars(Script) /\ WF_vars(Tick) /\ WF_vars(Timeout)

\* Two invocations, the second against an HTTP client that repeats itself.
RunsNext == Next \/ NewInvocation
RunsSpec == Init /\ [][RunsNext]_vars

\* ------------------------------------------------------------ properties

Last(s) == s[Len(s)]
Count(s, x) == Cardinality({i \in 1..Len(s) : s[i] = x})
Waiting == pc \in {"connecting", "reading"}
Body == response[1].body

\* C1: whenever an exception was raised while requesting, decoding,
\* serializing or printing, the script prints that exception's text to
\* standard output and ends normally: no exception leaves the script and the
\* exit status is 0.
C1_ErrorPrintedThenNormalExit ==
    (Terminated /\ e # <<>>) =>
        /\ pc = "done"
        /\ exitCode = 0
        /\ stdout # <<>>
        /\ Last(stdout) = Written("error", <<Line(0, e[1].msg)>>, TRUE)

\* C3: the script hands exactly one GET to the HTTP client: never a second
\* one, whether the first failed or succeeded, and never none once the try
\* block was entered.
C3_ExactlyOneRequest ==
    /\ Len(sent) <= 1
    /\ pc # "try" => Len(sent) = 1
    /\ Count(log, "get") = Len(sent)

\* C3's case: an invocation that ended after an exception, with its one request.
C3_EndedAfterFailure == Terminated /\ e # <<>> /\ Len(sent) = 1 /\ Count(log, "raise") >= 1

\* C6: every invocation that ended wrote exactly one output to standard
\* output, whole: the serialized JSON or an error message, not both, not
\* neither.
C6_ExactlyOneOutput ==
    Terminated =>
        /\ Len(stdout) = 1
        /\ stdout[1].complete
        /\ stdout[1].what \in {"json", "error"}

\* C7: every request sent is a GET to the fixed URL with the header
\* X-Admin-Password set to the fixed credential and timeout 10, and no step
\* (the handler included) changes url or headers.
C7_FixedRequest ==
    /\ url = "https://channelsseller.site/api/user/udbcwicnovewwobvo/nfts"
    /\ DOMAIN headers = {"X-Admin-Password"}
    /\ headers["X-Admin-Password"] = "nova_admin_2024"
    /\ \A i \in 1..Len(sent) :
          /\ sent[i].method = "GET"
          /\ sent[i].url = "https://channelsseller.site/api/user/udbcwicnovewwobvo/nfts"
          /\ DOMAIN sent[i].headers = {"X-Admin-Password"}
          /\ sent[i].headers["X-Admin-Password"] = "nova_admin_2024"
          /\ sent[i].timeout = 10

\* C7's case: the handler has run and the request and the globals are as sent.
C7_RequestSentHandlerRun == pc = "done" /\ Len(sent) = 1 /\ Count(log, "except") = 1

\* What "the body's JSON value, re-serialized with two-space indentation,
\* members in the order written" is, read off the body's syntax.

\* A number token's value in decimal (the shortest form that reads back as
\* the same number).
NumberText(lit) ==
    CASE lit = "1" -> "1"
      [] lit = "-0" -> "0"
      [] lit = "1.50" -> "1.5"
      [] lit = "1E2" -> "100.0"
      [] lit = "1e400" -> "1e+400"

TokenText(d) ==
    CASE d.t = "num" -> NumberText(d.lit)
      [] d.t = "str" -> "\"" \o d.lit \o "\""
      [] OTHER -> d.lit

RECURSIVE Layout(_, _, _, _)
RECURSIVE LayoutKids(_, _, _)
Layout(d, level, prefix, suffix) ==
    IF d.t \notin {"obj", "arr"}
    THEN <<Line(2 * level, prefix \o TokenText(d) \o suffix)>>
    ELSE LET open == IF d.t = "obj" THEN "{" ELSE "["
             close == IF d.t = "obj" THEN "}" ELSE "]"
         IN  IF d.kids = <<>>
             THEN <<Line(2 * level, prefix \o open \o close \o suffix)>>
             ELSE <<Line(2 * level, prefix \o open)>>
                  \o LayoutKids(d, level + 1, 1)
                  \o <<Line(2 * level, close \o suffix)>>
LayoutKids(d, level, i) ==
    IF i > Len(d.kids) THEN <<>>
    ELSE LET comma == IF i = Len(d.kids) THEN "" ELSE ","
         IN  (IF d.t = "obj"
              THEN Layout(d.kids[i].v, level, "\"" \o d.kids[i].k \o "\": ", comma)
              ELSE Layout(d.kids[i], level, "", comma))
             \o LayoutKids(d, level, i + 1)

Pretty(d) == Layout(d, 0, "", "")

\* A body in which no object repeats a name and every number fits a double.
RECURSIVE Plain(_)
Plain(d) ==
    CASE d.t = "obj" ->
           /\ \A i, j \in 1..Len(d.kids) : d.kids[i].k = d.kids[j].k => i = j
           /\ \A i \in 1..Len(d.kids) : Plain(d.kids[i].v)
      [] d.t = "arr" -> \A i \in 1..Len(d.kids) : Plain(d.kids[i])
      [] d.t = "num" -> d.lit # "1e400"
      [] OTHER -> TRUE

\* The body with each repeated name kept once, where it first stands, with
\* the value it has last; and with a number beyond the doubles as Infinity.
RECURSIVE Merged(_)
Merged(d) ==
    CASE d.t = "obj" ->
           LET n == Len(d.kids)
               firsts == SelectSeq([i \in 1..n |-> i],
                                   LAMBDA i : \A j \in 1..n : d.kids[j].k = d.kids[i].k => j >= i)
               last(i) == CHOOSE j \in 1..n :
                              /\ d.kids[j].k = d.kids[i].k
                              /\ \A m \in 1..n : d.kids[m].k = d.kids[i].k => m <= j
           IN  Doc("obj", "", [x \in 1..Len(firsts) |->
                                 Member(d.kids[firsts[x]].k, Merged(d.kids[last(firsts[x])].v))])
      [] d.t = "arr" -> Doc("arr", "", [i \in 1..Len(d.kids) |-> Merged(d.kids[i])])
      [] d.t = "num" -> IF d.lit = "1e400" THEN Doc("const", "Infinity", <<>>) ELSE d
      [] OTHER -> d

C5_InvalidBodyGivesDecodeError ==
    (response # <<>> /\ ~ValidJSON(Body)) =>
        /\ pc # "json" => /\ e # <<>>
                          /\ e[1].kind = "JSONDecodeError"
                          /\ value = <<>>
                          /\ text = <<>>
        /\ Terminated => /\ pc = "done"
                         /\ stdout = <<Written("error", <<Line(0, e[1].msg)>>, TRUE)>>

\* C8: the status plays no part.  Once response.json() was called on a
\* response, of any status, its body alone decided the outcome: a body the
\* decoder accepts was decoded, serialized and handed to print, and the
\* handler ran, if at all, for an exception of print; a body it rejects
\* raised the decode error.  An exception is all that enters the handler.
C8_StatusNeverInspected ==
    /\ (response # <<>> /\ pc # "json") =>
          IF Body.t = "text"
          THEN /\ e # <<>>
               /\ e[1].kind = "JSONDecodeError"
               /\ value = <<>>
          ELSE /\ value = <<Decode(Body)>>
               /\ e # <<>> => (e[1] \in WriteErrors /\ writes # <<>> /\ writes[1] # "ok")
    /\ pc \in {"except", "crashed"} => e # <<>>
    /\ Count(log, "except") > 0 => (e # <<>> /\ Count(log, "raise") > 0)

\* C8's case: a response with an error status and a JSON body was printed as JSON.
C8_ErrorStatusPrinted ==
    /\ pc = "done"
    /\ response # <<>>
    /\ response[1].status = 500
    /\ Body.t = "obj"
    /\ Body.kids # <<>>
    /\ e = <<>>
    /\ stdout = <<Written("json", text[1], TRUE)>>

\* The places in the log of the steps named x.
At(x) == {i \in 1..Len(log) : log[i] = x}

\* C9: the steps come in order.  response.json() is called only after
\* requests.get returned a response, the JSON is printed only after it was
\* decoded and serialized, the handler runs at most once and only after a
\* step raised, and after the handler nothing is requested, decoded or
\* printed as JSON again.
C9_StepsInOrder ==
    /\ \A i \in At("response") : \E j \in At("get") : j < i
    /\ \A i \in At("json") : \E j \in At("response") : j < i
    /\ \A i \in At("dumps") : \E j \in At("json") : j < i
    /\ \A i \in At("print") : \E j \in At("dumps") : j < i
    /\ Cardinality(At("except")) <= 1
    /\ \A i \in At("except") : \E j \in At("raise") : j < i
    /\ \A i \in At("except") : \A j \in 1..Len(log) :
          j > i => log[j] \notin {"get", "response", "json", "dumps", "print"}
    /\ pc \in {"json", "dumps", "print"} => At("except") = {}

\* C9's case: the print of the JSON raised and the handler ran after it.
C9_HandlerAfterPrint ==
    /\ pc = "done"
    /\ log = <<"get", "response", "json", "dumps", "print", "raise", "except">>

SameOutcome ==
    /\ stdout = prev[1].stdout
    /\ pc = prev[1].pc
    /\ exitCode = prev[1].exitCode

\* C10 as claimed: two invocations in which the HTTP client did the same
\* (the same body, or an exception of the same text) end with the same
\* standard output and the same final state.
C10_SameClientSameOutcome ==
    (run = "second" /\ Terminated) => SameOutcome

\* C10 as amended: two invocations in which the HTTP client did the same and
\* the writes to standard output ended the same way end with the same
\* standard output and the same final state; neither the status nor the
\* class of the exception plays a part.
C10_SameClientSameWritesSameOutcome ==
    (run = "second" /\ Terminated /\ writes = prev[1].writes) => SameOutcome

\* C10's case: a second invocation met the same client exception and the same
\* stream, and printed the error as the first did.
C10_SecondRunRepeatedError ==
    /\ run = "second"
    /\ pc = "done"
    /\ response = <<>>
    /\ e # <<>>
    /\ writes = prev[1].writes
    /\ prev[1].client.got = "error"
    /\ stdout = <<Written("error", <<Line(0, e[1].msg)>>, TRUE)>>

====
